---- MODULE Spec2Model ----
(***************************************************************************)
(* Model of two components of the repository:                              *)
(*   - integrations/slack.py : the Slack notifier pipeline                  *)
(*     (main -> process_args -> get_json_options -> get_json_alert ->      *)
(*      generate_msg -> send_msg), one process invocation per behaviour;   *)
(*   - api/api/models/active_response_model.py : the ActiveResponse model  *)
(*     (constructor, property getters and setters).                        *)
(* Python values are modelled structurally: a dict is a function whose     *)
(* domain is its key set, a list is a sequence, a str is a string.         *)
(***************************************************************************)
EXTENDS Integers, Sequences, FiniteSets, TLC

VARIABLES
    args,                   \* sys.argv of the invocation
    fs,                     \* the files on disk: path -> [state, doc]
    pc,                     \* the next step of the run, or how it ended
    exit_code,              \* process exit status, NoExit while running
    error,                  \* name of the exception that propagated, "" if none
    debug_enabled,          \* slack.py global debug_enabled
    options_file_location,  \* process_args local
    json_options,           \* process_args local
    json_alert,             \* process_args local
    msg,                    \* process_args local: the serialized message
    log,                    \* lines appended to LOG_FILE by this run
    console,                \* number of print() calls made by debug()
    opened,                 \* paths passed to open() for reading, in order
    requests,               \* POSTs delivered by requests.post, in order
    \* ---- ActiveResponse instance ----
    _command,
    _custom,
    _arguments,
    stored,                 \* history: value last stored per field
    ret                     \* field and value of the last property read

slackVars == <<args, fs, pc, exit_code, error, debug_enabled,
               options_file_location, json_options, json_alert, msg, log,
               console, opened, requests>>
modelVars == <<_command, _custom, _arguments, stored, ret>>
vars == <<slackVars, modelVars>>

----------------------------------------------------------------------------
(* Bounds of the model *)

MaxLevel == 9       \* rule.level ranges over 0..MaxLevel
MaxExtra == 2       \* number of arguments after the webhook URL
MaxArguments == 2   \* length of an ActiveResponse arguments list

(* Program constants *)

ALERT_INDEX == 1
WEBHOOK_INDEX == 3
MinArgs == 4
SuffixLen == 7
ExitBadArguments == 2
ExitFileNotFound == 3
ExitJSONDecodeError == 4
ExitUncaught == 1
ExitOk == 0
NoExit == 0 - 1

debug_console == TRUE
now == "Fri Nov 06 07:00:00 UTC 2026"

----------------------------------------------------------------------------
(* Python helpers *)

None == "None"
EmptyDict == [k \in {} |-> None]

\* args[i] with Python's 0-based index
Arg(a, i) == a[i + 1]

\* dict.get(key)
Get(d, key) == IF key \in DOMAIN d THEN d[key] ELSE None

\* s[-7:] == "options"
EndsWithOptions(s) ==
    LET start == IF Len(s) > SuffixLen THEN Len(s) - SuffixLen + 1 ELSE 1
    IN  SubSeq(s, start, Len(s)) = "options"

TraceLine(text) == [kind |-> "trace", text |-> text]
CallLine(text) == [kind |-> "call", text |-> text]

----------------------------------------------------------------------------
(* Inputs of one invocation *)

AlertPath == "/tmp/alert.json"
OptionsPath == "/tmp/slack.options"
HookUrl == "https://hooks.slack.com/services/X"

\* what may follow the webhook URL on the command line
Extras == {"debug", OptionsPath, "options", "verbose"}

FullArgs == <<"slack.py", AlertPath, "key", HookUrl>>

ArgVectors ==
    {SubSeq(FullArgs, 1, n) : n \in 1..(MinArgs - 1)}
    \cup {FullArgs \o e : e \in UNION {[1..n -> Extras] : n \in 0..MaxExtra}}

Levels == 0..MaxLevel

\* the alert documents: rule.level, id and location always present
MkAlert(level, hasRuleId, hasDescription, hasFullLog, hasAgent, hasAgentless) ==
    [rule |-> [level |-> level]
                @@ (IF hasRuleId THEN [id |-> "5710"] ELSE EmptyDict)
                @@ (IF hasDescription THEN [description |-> "Test"] ELSE EmptyDict),
     id |-> "1",
     location |-> "loc"]
    @@ (IF hasFullLog THEN [full_log |-> "x"] ELSE EmptyDict)
    @@ (IF hasAgent THEN [agent |-> [id |-> "001", name |-> "a1"]] ELSE EmptyDict)
    @@ (IF hasAgentless THEN [agentless |-> [host |-> "h1"]] ELSE EmptyDict)

AlertDocs ==
    {MkAlert(l, r, d, f, a, g) :
        l \in Levels, r \in BOOLEAN, d \in BOOLEAN, f \in BOOLEAN,
        a \in BOOLEAN, g \in BOOLEAN}

OptionsDocs ==
    {EmptyDict,
     [channel |-> "#alerts"],
     [color |-> "#439FE0", username |-> "wazuh"],
     [color |-> "danger", pretext |-> "p", title |-> "Override", text |-> "t",
      fields |-> <<[title |-> "Team", value |-> "soc"]>>, ts |-> "0"]}

FileMissing == [state |-> "missing", doc |-> EmptyDict]
FileInvalid == [state |-> "invalid", doc |-> EmptyDict]
FileWith(doc) == [state |-> "valid", doc |-> doc]

AlertFiles == {FileMissing, FileInvalid} \cup {FileWith(d) : d \in AlertDocs}
OptionsFiles == {FileMissing, FileInvalid} \cup {FileWith(d) : d \in OptionsDocs}

\* open(path): a path that names no file of fs does not exist
Open(path) == IF path \in DOMAIN fs THEN fs[path] ELSE FileMissing

----------------------------------------------------------------------------
(* generate_msg *)

\* Color with the first comparison strict
Color_strict(level) ==
    IF level < 4 THEN "good"
    ELSE IF level >= 5 /\ level <= 7 THEN "warning"
    ELSE "danger"

\* the if / elif / else on level
Color(level) ==
    IF level <= 4 THEN "good"
    ELSE IF level >= 5 /\ level <= 7 THEN "warning"
    ELSE "danger"

\* the first subscript of generate_msg that raises KeyError, "" if none does
KeyErrorOf(alert) ==
    IF "rule" \notin DOMAIN alert THEN "rule"
    ELSE IF "level" \notin DOMAIN alert["rule"] THEN "level"
    ELSE IF "agent" \in DOMAIN alert /\ "id" \notin DOMAIN alert["agent"] THEN "id"
    ELSE IF "agent" \in DOMAIN alert /\ "name" \notin DOMAIN alert["agent"] THEN "name"
    ELSE IF "agentless" \in DOMAIN alert /\ "host" \notin DOMAIN alert["agentless"]
        THEN "host"
    ELSE IF "location" \notin DOMAIN alert THEN "location"
    ELSE IF "id" \notin DOMAIN alert["rule"] THEN "id"
    ELSE IF "id" \notin DOMAIN alert THEN "id"
    ELSE ""

\* msg['fields'] after the four appends
Fields(alert) ==
    (IF "agent" \in DOMAIN alert
        THEN <<[title |-> "Agent",
                value |-> "(" \o alert["agent"]["id"] \o ") - "
                              \o alert["agent"]["name"]]>>
        ELSE <<>>)
    \o (IF "agentless" \in DOMAIN alert
        THEN <<[title |-> "Agentless Host", value |-> alert["agentless"]["host"]]>>
        ELSE <<>>)
    \o <<[title |-> "Location", value |-> alert["location"]]>>
    \o <<[title |-> "Rule ID",
          value |-> alert["rule"]["id"] \o " _(Level "
                        \o ToString(alert["rule"]["level"]) \o ")_"]>>

\* msg before the options are merged in
BaseMsg(alert) ==
    [color |-> Color(alert["rule"]["level"]),
     pretext |-> "WAZUH Alert",
     title |-> IF "description" \in DOMAIN alert["rule"]
                   THEN alert["rule"]["description"] ELSE "N/A",
     text |-> Get(alert, "full_log"),
     fields |-> Fields(alert),
     ts |-> alert["id"]]

\* Update that keeps the keys msg already has (setdefault instead of update)
Update_keep(m, o) ==
    [k \in DOMAIN m \cup DOMAIN o |-> IF k \in DOMAIN m THEN m[k] ELSE o[k]]

\* dict.update
Update(m, o) ==
    [k \in DOMAIN m \cup DOMAIN o |-> IF k \in DOMAIN o THEN o[k] ELSE m[k]]

\* truth value of a dict
Truthy(d) == DOMAIN d # {}

\* the object handed to json.dumps; the serialized string is represented by
\* the JSON document it denotes
generate_msg(alert, options) ==
    [attachments |->
        <<IF Truthy(options) THEN Update(BaseMsg(alert), options)
          ELSE BaseMsg(alert)>>]

NoMsg == [attachments |-> <<>>]

\* a lower bound of len(json.dumps(attach)): the braces, brackets and keys
DumpsMinLen(attach) ==
    Len("{\"attachments\": []}")
    + (IF attach["attachments"] = <<>> THEN 0
       ELSE Len("{}") + Cardinality(DOMAIN attach["attachments"][1]))

----------------------------------------------------------------------------
(* main and process_args *)

\* Debug that tests debug_console where it should test debug_enabled
Debug_console(enabled, l, texts) ==
    IF debug_console
        THEN l \o [i \in 1..Len(texts) |-> TraceLine(now \o ": " \o texts[i])]
        ELSE l

\* debug(): the lines appended to LOG_FILE for the messages texts
Debug(enabled, l, texts) ==
    IF enabled
        THEN l \o [i \in 1..Len(texts) |-> TraceLine(now \o ": " \o texts[i])]
        ELSE l

\* debug(): the number of print() calls for n messages
Printed(enabled, n) ==
    n * ((IF enabled THEN 1 ELSE 0) + (IF debug_console THEN 1 ELSE 0))

\* bad_arguments with the comparison strict
bad_arguments_strict(a) == ~(Len(a) > MinArgs)

\* main: the else branch of len(args) >= 4
bad_arguments(a) == ~(Len(a) >= MinArgs)

\* main: the text of the call line for a well-formed argument vector
CallText(a) ==
    now \o " " \o Arg(a, 1) \o " " \o Arg(a, 2) \o " " \o Arg(a, 3) \o " "
        \o (IF Len(a) > 4 THEN Arg(a, 4) ELSE "") \o " "
        \o (IF Len(a) > 5 THEN Arg(a, 5) ELSE "")

\* process_args: the for loop over range(4, len(args)) with its break
FindOptions(a) ==
    LET hits == {idx \in 4..(Len(a) - 1) : EndsWithOptions(Arg(a, idx))}
    IN  IF hits = {} THEN ""
        ELSE Arg(a, CHOOSE idx \in hits : \A j \in hits : idx <= j)

\* Pipeline with the message sent before it is generated
Pipeline_send_first ==
    <<"get_json_options", "get_json_alert", "send_msg", "generate_msg">>

\* Pipeline with the alert loaded before the options
Pipeline_alert_first ==
    <<"get_json_alert", "get_json_options", "generate_msg", "send_msg">>

\* process_args: the calls it makes, in order
Pipeline == <<"get_json_options", "get_json_alert", "generate_msg", "send_msg">>

\* the step that follows step, "done" when process_args and main return
StepAfter(step) ==
    LET i == CHOOSE j \in 1..Len(Pipeline) : Pipeline[j] = step
    IN  IF i < Len(Pipeline) THEN Pipeline[i + 1] ELSE "done"

\* sys.exit(code)
Exit(code) ==
    /\ pc' = "exited"
    /\ exit_code' = code
    /\ error' = error

\* an exception leaves process_args: main logs str(e) and re-raises
Raise(name) ==
    /\ pc' = "raised"
    /\ exit_code' = ExitUncaught
    /\ error' = name

\* the step returns normally
Return(step) ==
    /\ pc' = StepAfter(step)
    /\ exit_code' = IF StepAfter(step) = "done" THEN ExitOk ELSE exit_code
    /\ error' = error

Emit(enabled, texts) ==
    /\ log' = Debug(enabled, log, texts)
    /\ console' = console + Printed(enabled, Len(texts))

MainBadArguments ==
    /\ pc = "main"
    /\ bad_arguments(args)
    /\ log' = Debug(debug_enabled,
                    Append(log, CallLine(now \o " Wrong arguments")),
                    <<"# Exiting: Bad arguments. Inputted: " \o ToString(args)>>)
    /\ console' = console + Printed(debug_enabled, 1)
    /\ Exit(ExitBadArguments)
    /\ UNCHANGED <<args, fs, debug_enabled, options_file_location, json_options,
                   json_alert, msg, opened, requests, modelVars>>

MainCall ==
    /\ pc = "main"
    /\ ~bad_arguments(args)
    /\ debug_enabled' = (Len(args) > 4 /\ Arg(args, 4) = "debug")
    /\ options_file_location' = FindOptions(args)
    /\ log' = Debug(debug_enabled',
                    Append(log, CallLine(CallText(args))),
                    <<"# Starting", "# Options file location",
                      options_file_location'>>)
    /\ console' = console + Printed(debug_enabled', 3)
    /\ pc' = Pipeline[1]
    /\ UNCHANGED <<args, fs, exit_code, error, json_options, json_alert, msg,
                   opened, requests, modelVars>>

GetJsonOptions ==
    /\ pc = "get_json_options"
    /\ opened' = Append(opened, options_file_location)
    /\ LET f == Open(options_file_location)
       IN  CASE f.state = "valid" ->
                  /\ json_options' = f.doc
                  /\ Emit(debug_enabled,
                          <<"# Processing options", ToString(f.doc),
                            "# Alert file location", Arg(args, ALERT_INDEX)>>)
                  /\ Return("get_json_options")
             [] f.state = "missing" ->
                  /\ json_options' = json_options
                  /\ Emit(debug_enabled,
                          <<"# Option file " \o options_file_location
                                \o " doesn't exist">>)
                  /\ Exit(ExitFileNotFound)
             [] f.state = "invalid" ->
                  /\ json_options' = json_options
                  /\ Emit(debug_enabled, <<"Failed getting json_alert">>)
                  /\ Exit(ExitJSONDecodeError)
    /\ UNCHANGED <<args, fs, debug_enabled, options_file_location, json_alert,
                   msg, requests, modelVars>>

GetJsonAlert ==
    /\ pc = "get_json_alert"
    /\ opened' = Append(opened, Arg(args, ALERT_INDEX))
    /\ LET f == Open(Arg(args, ALERT_INDEX))
       IN  CASE f.state = "valid" ->
                  /\ json_alert' = f.doc
                  /\ Emit(debug_enabled,
                          <<"# Processing alert", ToString(f.doc),
                            "# Generating message">>)
                  /\ Return("get_json_alert")
             [] f.state = "missing" ->
                  /\ json_alert' = json_alert
                  /\ Emit(debug_enabled,
                          <<"# Alert file " \o Arg(args, ALERT_INDEX)
                                \o " doesn't exist">>)
                  /\ Exit(ExitFileNotFound)
             [] f.state = "invalid" ->
                  /\ json_alert' = json_alert
                  /\ Emit(debug_enabled, <<"Failed getting json_alert">>)
                  /\ Exit(ExitJSONDecodeError)
    /\ UNCHANGED <<args, fs, debug_enabled, options_file_location, json_options,
                   msg, requests, modelVars>>

GenerateMsg ==
    /\ pc = "generate_msg"
    /\ IF KeyErrorOf(json_alert) # ""
          THEN /\ msg' = msg
               /\ Emit(debug_enabled, <<"'" \o KeyErrorOf(json_alert) \o "'">>)
               /\ Raise("KeyError")
          ELSE LET m == generate_msg(json_alert, json_options)
               IN  IF DumpsMinLen(m) = 0
                      THEN /\ msg' = m
                           /\ Emit(debug_enabled, <<"# ERR - Empty message", "">>)
                           /\ Raise("Exception")
                      ELSE /\ msg' = m
                           /\ Emit(debug_enabled,
                                   <<ToString(m), "# Sending message">>)
                           /\ Return("generate_msg")
    /\ UNCHANGED <<args, fs, debug_enabled, options_file_location, json_options,
                   json_alert, opened, requests, modelVars>>

Headers == [content_type |-> "application/json", Accept_Charset |-> "UTF-8"]

SendMsg ==
    /\ pc = "send_msg"
    /\ \E net \in {"up", "down"} :
         IF net = "up"
            THEN \E status \in {"200", "500"} :
                   /\ requests' = Append(requests,
                                         [url |-> Arg(args, WEBHOOK_INDEX),
                                          data |-> msg,
                                          headers |-> Headers])
                   /\ Emit(debug_enabled,
                           <<"# In send msg",
                             "# After send msg: <Response [" \o status \o "]>">>)
                   /\ Return("send_msg")
            ELSE /\ requests' = requests
                 /\ Emit(debug_enabled, <<"# In send msg", "ConnectionError">>)
                 /\ Raise("ConnectionError")
    /\ UNCHANGED <<args, fs, debug_enabled, options_file_location, json_options,
                   json_alert, msg, opened, modelVars>>

----------------------------------------------------------------------------
(* ActiveResponse *)

\* Python values of different types are never equal: each carries its type
PyNone == <<"NoneType", <<>>>>
PyStr(x) == <<"str", <<x>>>>
PyBool(b) == <<"bool", <<IF b THEN "True" ELSE "False">>>>
PyList(l) == <<"list", l>>

CommandValues == {PyNone, PyStr("restart-wazuh"), PyStr("!custom.sh")}
CustomValues == {PyBool(FALSE), PyBool(TRUE)}
ArgumentStrings == {"-v", "srcip"}
ArgumentsValues ==
    {PyNone} \cup
    {PyList(l) : l \in UNION {[1..n -> ArgumentStrings] : n \in 0..MaxArguments}}

FieldNames == {"command", "custom", "arguments"}
NoRead == [field |-> "", value |-> PyNone]

\* __init__
Construct(c, u, a) ==
    /\ _command' = c
    /\ _custom' = u
    /\ _arguments' = a
    /\ stored' = [command |-> c, custom |-> u, arguments |-> a]
    /\ ret' = NoRead
    /\ UNCHANGED slackVars

\* the property getters
command == _command
custom == _custom
arguments == _command

\* the property setters
set_command(v) ==
    /\ _command' = v
    /\ stored' = [stored EXCEPT !["command"] = v]
    /\ UNCHANGED <<_custom, _arguments, ret, slackVars>>

set_custom(v) ==
    /\ _custom' = v
    /\ stored' = [stored EXCEPT !["custom"] = v]
    /\ UNCHANGED <<_command, _arguments, ret, slackVars>>

set_arguments(v) ==
    /\ _arguments' = v
    /\ stored' = [stored EXCEPT !["arguments"] = v]
    /\ UNCHANGED <<_command, _custom, ret, slackVars>>

\* a caller reads one property
Read(field) ==
    CASE field = "command" -> command
      [] field = "custom" -> custom
      [] field = "arguments" -> arguments

ReadProperty(field) ==
    /\ ret' = [field |-> field, value |-> Read(field)]
    /\ UNCHANGED <<_command, _custom, _arguments, stored, slackVars>>

----------------------------------------------------------------------------
(* Specifications *)

\* ActiveResponse() with the default arguments of __init__
DefaultModel ==
    /\ _command = PyNone
    /\ _custom = PyBool(FALSE)
    /\ _arguments = PyNone
    /\ stored = [command |-> PyNone, custom |-> PyBool(FALSE), arguments |-> PyNone]
    /\ ret = NoRead

\* the module-level globals of slack.py before main runs
SlackStart ==
    /\ pc = "main"
    /\ exit_code = NoExit
    /\ error = ""
    /\ debug_enabled = FALSE
    /\ options_file_location = ""
    /\ json_options = EmptyDict
    /\ json_alert = EmptyDict
    /\ msg = NoMsg
    /\ log = <<>>
    /\ console = 0
    /\ opened = <<>>
    /\ requests = <<>>

Init ==
    /\ args \in ArgVectors
    /\ \E a \in AlertFiles, o \in OptionsFiles :
         fs = (AlertPath :> a @@ OptionsPath :> o)
    /\ SlackStart
    /\ DefaultModel

Next ==
    \/ MainBadArguments
    \/ MainCall
    \/ GetJsonOptions
    \/ GetJsonAlert
    \/ GenerateMsg
    \/ SendMsg

Spec == Init /\ [][Next]_vars

ModelInit ==
    /\ args = FullArgs
    /\ fs = (AlertPath :> FileMissing @@ OptionsPath :> FileMissing)
    /\ SlackStart
    /\ \E c \in CommandValues, u \in CustomValues, a \in ArgumentsValues :
         /\ _command = c
         /\ _custom = u
         /\ _arguments = a
         /\ stored = [command |-> c, custom |-> u, arguments |-> a]
    /\ ret = NoRead

ModelNext ==
    \/ \E c \in CommandValues, u \in CustomValues, a \in ArgumentsValues :
         Construct(c, u, a)
    \/ \E v \in CommandValues : set_command(v)
    \/ \E v \in CustomValues : set_custom(v)
    \/ \E v \in ArgumentsValues : set_arguments(v)
    \/ \E field \in FieldNames : ReadProperty(field)

ModelSpec == ModelInit /\ [][ModelNext]_vars

----------------------------------------------------------------------------
(* Vocabulary of the properties *)

Terminal == pc \in {"done", "exited", "raised"}

\* some argument at Python index >= 4 ends with "options"
OptionsNamed == \E i \in 5..Len(args) : EndsWithOptions(args[i])

\* the argument at Python index 4 is the literal debug
DebugArg == Len(args) > 4 /\ args[5] = "debug"

Range(q) == {q[i] : i \in 1..Len(q)}

AlertFile == fs[AlertPath]

\* the file the options-loading step reads
NamedOptionsFile == Open(FindOptions(args))

\* generate_msg has run to its end, one way or the other
GenerationAttempted ==
    /\ AlertPath \in Range(opened)
    /\ AlertFile.state = "valid"
    /\ pc \in {"send_msg", "done", "raised"}

TitlesOf(fields) == {fields[i].title : i \in 1..Len(fields)}

\* the stage a value of pc belongs to
Rank(p) ==
    CASE p = "main" -> 0
      [] p \in {"get_json_options", "get_json_alert"} -> 1
      [] p = "generate_msg" -> 2
      [] p = "send_msg" -> 3
      [] OTHER -> 4

----------------------------------------------------------------------------
(* C1 *)

\* C1: with at least 4 arguments none of which (index >= 4) ends with
\* "options", the run does not end at the options-loading step: it goes on
\* to open the alert file, and a run that completes has sent the message
\* built from the alert alone.
C1_NoOptionsProceeds ==
    (Len(args) >= MinArgs /\ ~OptionsNamed) =>
        /\ Terminal => AlertPath \in Range(opened)
        /\ (Terminal /\ AlertFile.state = "valid"
                /\ KeyErrorOf(AlertFile.doc) = "" /\ error = "") =>
             /\ Len(requests) = 1
             /\ requests[1].data = [attachments |-> <<BaseMsg(AlertFile.doc)>>]

----------------------------------------------------------------------------
(* C2 *)

\* C2: with fewer than 4 arguments main appends the "Wrong arguments" line
\* and exits with code 2, having opened no file and sent no POST; with 4 or
\* more arguments the run never exits with code 2.
C2_BadArguments ==
    /\ (Len(args) < 4 /\ pc # "main") =>
          /\ pc = "exited"
          /\ exit_code = 2
          /\ Len(log) >= 1
          /\ log[1] = CallLine(now \o " Wrong arguments")
          /\ opened = <<>>
          /\ requests = <<>>
    /\ Len(args) >= 4 => exit_code # 2

C2_Witness ==
    /\ Len(args) < 4
    /\ pc = "exited"
    /\ exit_code = 2
    /\ log = <<CallLine(now \o " Wrong arguments")>>

----------------------------------------------------------------------------
(* C3 *)

\* C3: with at least 4 arguments and an options file that, if named, is
\* valid, a finished run has exit code 3 when the alert file does not exist
\* and exit code 4 when it holds invalid JSON.
C3_AlertExitCodes ==
    (/\ Len(args) >= MinArgs
     /\ OptionsNamed => NamedOptionsFile.state = "valid"
     /\ Terminal) =>
        /\ AlertFile.state = "missing" => exit_code = 3
        /\ AlertFile.state = "invalid" => exit_code = 4

----------------------------------------------------------------------------
(* C4 *)

ExpectedColors(level) ==
    {c \in {"good", "warning", "danger"} :
        \/ c = "good" /\ level <= 4
        \/ c = "warning" /\ 5 <= level /\ level <= 7
        \/ c = "danger" /\ level >= 8}

\* C4: the colour of a generated message is "good" for level <= 4, "warning"
\* for 5..7 and "danger" for >= 8, exactly one of the three for every level,
\* and it is decided by the level alone unless the options carry "color".
C4_ColorByLevel ==
    /\ \A level \in Levels : ExpectedColors(level) = {Color(level)}
    /\ (msg # NoMsg /\ "color" \notin DOMAIN json_options) =>
          ExpectedColors(json_alert["rule"]["level"])
              = {msg["attachments"][1]["color"]}

C4_Witness ==
    /\ pc = "done"
    /\ json_alert["rule"]["level"] = 4
    /\ json_options = [channel |-> "#alerts"]
    /\ requests[1].data["attachments"][1]["color"] = "good"

----------------------------------------------------------------------------
(* C5 *)

C5_PostOnlyAtTheEnd ==
    /\ Len(requests) <= 1
    /\ requests # <<>> =>
          /\ Len(args) >= MinArgs
          /\ FindOptions(args) \in Range(opened)
          /\ NamedOptionsFile.state = "valid"
          /\ json_options = NamedOptionsFile.doc
          /\ AlertPath \in Range(opened)
          /\ AlertFile.state = "valid"
          /\ json_alert = AlertFile.doc
          /\ msg # NoMsg
          /\ requests[1].data = msg
    /\ exit_code \in {2, 3, 4} => requests = <<>>
    /\ error \in {"KeyError", "Exception"} => requests = <<>>

C5_Forward ==
    /\ ~Terminal
    /\ pc' # pc
    /\ Rank(pc') >= Rank(pc)
    /\ Len(requests') >= Len(requests)

\* C5: the stages run in one forward order and a failure ends the run; a
\* POST is sent at most once, only after the argument check passed, both
\* documents were loaded and the message was built, and never in a run that
\* ends with exit code 2, 3 or 4 or with an exception raised before dispatch.
C5_LinearPipeline == [](C5_PostOnlyAtTheEnd) /\ [][C5_Forward]_vars

C5_Witness ==
    /\ pc = "done"
    /\ exit_code = 0
    /\ Len(requests) = 1
    /\ requests[1].url = HookUrl

----------------------------------------------------------------------------
(* C6 *)

\* C6: for every alert with rule.level, id and location (rule.id,
\* rule.description, full_log, agent, agentless optional) generate_msg
\* completes without error; absent an override by the options, the fields
\* hold a "Location" entry with the alert's location and a "Rule ID" entry,
\* an "Agent" entry exactly when the alert has an agent and an "Agentless
\* Host" entry exactly when it has an agentless object, the title is
\* rule.description or "N/A", and ts is the alert's id.
C6_GenerateMsgTotal ==
    GenerationAttempted =>
        /\ error \notin {"KeyError", "Exception"}
        /\ msg # NoMsg
        /\ DOMAIN json_options \cap {"fields", "title", "ts"} = {} =>
             LET m == msg["attachments"][1]
                 a == json_alert
             IN  /\ [title |-> "Location", value |-> a["location"]]
                        \in Range(m["fields"])
                 /\ "Rule ID" \in TitlesOf(m["fields"])
                 /\ ("agent" \in DOMAIN a) <=>
                        [title |-> "Agent",
                         value |-> "(" \o a["agent"]["id"] \o ") - "
                                       \o a["agent"]["name"]]
                            \in Range(m["fields"])
                 /\ ("agent" \in DOMAIN a) <=> "Agent" \in TitlesOf(m["fields"])
                 /\ ("agentless" \in DOMAIN a)
                        <=> "Agentless Host" \in TitlesOf(m["fields"])
                 /\ m["title"] = (IF "description" \in DOMAIN a["rule"]
                                     THEN a["rule"]["description"] ELSE "N/A")
                 /\ m["ts"] = a["id"]

----------------------------------------------------------------------------
(* C7 *)

\* C7: the message in attachments[0] is the shallow merge of the options O
\* over the generated message M: every key of O carries O's value, every
\* key of M that O lacks keeps M's value, no other key is present; with O
\* empty the message is M.
C7_ShallowMerge ==
    msg # NoMsg =>
        LET M == BaseMsg(json_alert)
            O == json_options
            R == msg["attachments"][1]
        IN  /\ Len(msg["attachments"]) = 1
            /\ DOMAIN R = DOMAIN M \cup DOMAIN O
            /\ \A k \in DOMAIN O : R[k] = O[k]
            /\ \A k \in DOMAIN M \ DOMAIN O : R[k] = M[k]
            /\ O = EmptyDict => R = M
            /\ \A i \in 1..Len(requests) : requests[i].data = msg

C7_Witness ==
    /\ pc = "done"
    /\ json_options = [color |-> "#439FE0", username |-> "wazuh"]
    /\ requests[1].data["attachments"][1]["color"] = "#439FE0"
    /\ requests[1].data["attachments"][1]["username"] = "wazuh"
    /\ requests[1].data["attachments"][1]["pretext"] = "WAZUH Alert"

----------------------------------------------------------------------------
(* C8 *)

\* C8: reading a field of the Command Record returns the value most
\* recently stored in that same field (by the constructor or its setter),
\* so that a store to one field never shows in another field's read.
C8_PureGetSet ==
    ret.field # "" => ret.value = stored[ret.field]

----------------------------------------------------------------------------
(* C9 *)

\* C9: the call line is the first thing a run does and there is exactly one;
\* trace lines are appended only when the argument at index 4 is "debug",
\* so every other run leaves exactly the call line in the log, whatever
\* stage it ends at.
C9_Logging ==
    /\ pc = "main" => (log = <<>> /\ opened = <<>> /\ requests = <<>>)
    /\ pc # "main" =>
          /\ Len(log) >= 1
          /\ log[1].kind = "call"
          /\ \A i \in 2..Len(log) : log[i].kind = "trace"
    /\ (\E i \in 1..Len(log) : log[i].kind = "trace") => DebugArg
    /\ (~DebugArg /\ Terminal) => Len(log) = 1
    /\ (DebugArg /\ pc # "main") => Len(log) > 1

C9_Witness ==
    /\ ~DebugArg
    /\ OptionsNamed
    /\ pc = "raised"
    /\ error = "KeyError"
    /\ Len(log) = 1
    /\ console > 0

----------------------------------------------------------------------------
(* C10 *)

\* C10 as stated: the alert file is opened and parsed first, so with the
\* alert file missing or malformed the run ends with exit code 3 or 4
\* without the options file having been opened.
C10_AlertFirst ==
    /\ opened # <<>> => opened[1] = AlertPath
    /\ (Len(args) >= MinArgs /\ Terminal /\ AlertFile.state # "valid") =>
          /\ AlertFile.state = "missing" => exit_code = 3
          /\ AlertFile.state = "invalid" => exit_code = 4
          /\ opened = <<AlertPath>>

\* C10 amended: the options path (the empty path when none is named) is
\* opened and parsed first, so with the options file missing or malformed
\* the run ends with exit code 3 or 4 without the alert file having been
\* opened, whatever the state of the alert file; the alert file is opened
\* only after the options were loaded.
C10_OptionsFirst ==
    /\ opened # <<>> => opened[1] = FindOptions(args)
    /\ (Len(args) >= MinArgs /\ Terminal /\ NamedOptionsFile.state # "valid") =>
          /\ NamedOptionsFile.state = "missing" => exit_code = 3
          /\ NamedOptionsFile.state = "invalid" => exit_code = 4
          /\ opened = <<FindOptions(args)>>
    /\ AlertPath \in Range(opened) =>
          /\ NamedOptionsFile.state = "valid"
          /\ json_options = NamedOptionsFile.doc

C10_Witness ==
    /\ pc = "exited"
    /\ exit_code = 4
    /\ NamedOptionsFile.state = "invalid"
    /\ AlertFile.state = "missing"
    /\ opened = <<OptionsPath>>

====
